---- MODULE Spec2Model ----
(***************************************************************************)
(* koishi-plugin-d2rtz: the Terror Zone rotation lookup with its file      *)
(* cache (fetch.ts), the rotation formatter, the OCR text preprocessor and *)
(* the two chat command handlers (index.ts).                               *)
(*                                                                         *)
(* Text is modelled as a sequence of string pieces.  The module parser     *)
(* accepts ASCII only in strings, so every non-ASCII character of the      *)
(* program's strings is written by its code point, e.g. "U+FF1A" for the   *)
(* fullwidth colon.  Times are whole minutes of local time since           *)
(* 2024-01-01T00:00 (Date.getTime() counts milliseconds; the program only  *)
(* compares a difference with 30 * 60 * 1000 ms); no DST change happens.   *)
(***************************************************************************)
EXTENDS Integers, Sequences, FiniteSets, TLC

VARIABLES
    now,        \* the wall clock, minutes since 2024-01-01T00:00 local time
    ticks,      \* number of clock advances so far
    cache,      \* cache/tz_online.json: NoFile or [content, mtime]
    pc,         \* d2rtz invocation p: "idle", "awaitFetch", "awaitJson"
    resp,       \* the response whose body invocation p is reading
    calls,      \* number of d2rtz invocations started
    netCalls,   \* number of HTTP GETs issued
    lastOk,     \* the most recent successful fetch: its payload and time
    ev,         \* the latest step of a d2rtz invocation and what it gave
    fmtIn,      \* a payload handed to processTzOnlineData
    fmtOut,     \* what processTzOnlineData gave for it: a string or a failure
    ocrIn,      \* an OCR text handed to preprocessOcrText
    ocrOut,     \* what preprocessOcrText gave for it
    cmd         \* one invocation of the 鉴定 command: configuration, message,
                \* position in the handler, results so far, steps taken, reply

tzVars == <<now, ticks, cache, pc, resp, calls, netCalls, lastOk, ev>>

fmtVars == <<fmtIn, fmtOut>>

ocrVars == <<ocrIn, ocrOut>>

cmdVars == <<cmd>>

vars == <<tzVars, fmtVars, ocrVars, cmdVars>>

(***************************************************************************)
(* Bounds.                                                                 *)
(***************************************************************************)
NumProcs == 2

MaxCalls == 2

MaxTicks == 2

\* Longest data array handed to the formatter.
MaxEntries == 3

\* Longest OCR text enumerated piece by piece.
MaxTokens == 5

\* Most lines of an OCR text put together from LineChoices.
MaxLines == 5

Procs == 1..NumProcs

\* Clock advances, in minutes: within the 30 minute window, onto it, past it,
\* and a whole day (same hour of the day, another date).
ClockSteps == {1, 29, 30, 1440}

\* Starting instants: 2024-01-01T00:00 and T00:31 (29 minutes before an hour
\* change), 2024-01-31T23:31 (29 minutes before a month change) and
\* 2024-12-31T23:31 (29 minutes before a year change).
StartTimes == {0, 31, 30 * 1440 + 23 * 60 + 31, 365 * 1440 + 23 * 60 + 31}

None == [kind |-> "none"]

(***************************************************************************)
(* The local calendar the Date getters read.                               *)
(***************************************************************************)
IsLeapYear(y) == (y % 4 = 0 /\ y % 100 # 0) \/ y % 400 = 0

DaysInYear(y) == IF IsLeapYear(y) THEN 366 ELSE 365

\* m is a month index as Date.getMonth() gives it: 0 is January
DaysInMonth(y, m) ==
    IF m = 1 THEN (IF IsLeapYear(y) THEN 29 ELSE 28)
    ELSE IF m \in {3, 5, 8, 10} THEN 30 ELSE 31

RECURSIVE YearFrom(_, _)
YearFrom(d, y) == IF d < DaysInYear(y) THEN y ELSE YearFrom(d - DaysInYear(y), y + 1)

RECURSIVE DayOfYearFrom(_, _)
DayOfYearFrom(d, y) == IF d < DaysInYear(y) THEN d ELSE DayOfYearFrom(d - DaysInYear(y), y + 1)

RECURSIVE MonthFrom(_, _, _)
MonthFrom(d, y, m) == IF d < DaysInMonth(y, m) THEN m ELSE MonthFrom(d - DaysInMonth(y, m), y, m + 1)

RECURSIVE DateFrom(_, _, _)
DateFrom(d, y, m) == IF d < DaysInMonth(y, m) THEN d + 1 ELSE DateFrom(d - DaysInMonth(y, m), y, m + 1)

getTime(t) == t

getHours(t) == (t \div 60) % 24

getFullYear(t) == YearFrom(t \div 1440, 2024)

getMonth(t) == MonthFrom(DayOfYearFrom(t \div 1440, 2024), getFullYear(t), 0)

getDate(t) == DateFrom(DayOfYearFrom(t \div 1440, 2024), getFullYear(t), 0)

(***************************************************************************)
(* fetch.ts: the cache validity test of fetchTzOnline.                     *)
(***************************************************************************)
isSameHourNoHourCheck(n, cacheTime) ==
    /\ getDate(n) = getDate(cacheTime)
    /\ getMonth(n) = getMonth(cacheTime)
    /\ getFullYear(n) = getFullYear(cacheTime)

isSameHour(n, cacheTime) ==
    /\ getHours(n) = getHours(cacheTime)
    /\ getDate(n) = getDate(cacheTime)
    /\ getMonth(n) = getMonth(cacheTime)
    /\ getFullYear(n) = getFullYear(cacheTime)

\* 30 * 60 * 1000 ms, in minutes
isWithin30Minutes(n, cacheTime) == getTime(n) - getTime(cacheTime) < 30

(***************************************************************************)
(* areas.ts: the area table, keyed by zone id, built from the bundled       *)
(* dataset raw_areas (name['zh-cn'], 'tier-loot'); the dataset here is the *)
(* two-zone table of the specification's example.                          *)
(***************************************************************************)
rawAreas ==
    << [id |-> 1, name |-> [zhcn |-> "A"], tierloot |-> "X"],
       [id |-> 2, name |-> [zhcn |-> "B"], tierloot |-> "Y"] >>

areas ==
    [z \in {rawAreas[i].id : i \in DOMAIN rawAreas} |->
        LET area == rawAreas[CHOOSE i \in DOMAIN rawAreas : rawAreas[i].id = z]
        IN  [name |-> area.name.zhcn, tier |-> area.tierloot]]

(***************************************************************************)
(* fetch.ts: processTzOnlineData.  A payload is [shape, data]: shape       *)
(* "null" is a missing payload, "nodata" an object without a data field,   *)
(* "nonarray" a data field that is no array, "array" a data array of       *)
(* entries [zone, time].                                                   *)
(***************************************************************************)
Value(text) == [kind |-> "value", text |-> text]

Throw(text) == [kind |-> "throw", text |-> text]

\* a.time - b.time
compareDescending(a, b) == b.time - a.time

compare(a, b) == a.time - b.time

\* Array.prototype.sort is stable: an entry goes after the entries that do
\* not compare greater than it.
RECURSIVE insertSorted(_, _)
insertSorted(sorted, e) ==
    IF sorted = <<>> THEN <<e>>
    ELSE IF compare(Head(sorted), e) <= 0
         THEN <<Head(sorted)>> \o insertSorted(Tail(sorted), e)
         ELSE <<e>> \o sorted

RECURSIVE sort(_)
sort(s) == IF s = <<>> THEN <<>> ELSE insertSorted(sort(SubSeq(s, 1, Len(s) - 1)), s[Len(s)])

\* data.data.length <= 2
isInvalidFormatOffByOne(data) == data.shape # "array" \/ Len(data.data) <= 2

isInvalidFormat(data) == data.shape # "array" \/ Len(data.data) < 2

hasAreaInfo(zone) == zone \in DOMAIN areas

\* `TZ：${name}，掉落：${tier}\nNext：${name}，掉落：${tier}`
message(currentAreaInfo, nextAreaInfo) ==
    << "TZ", "U+FF1A", currentAreaInfo.name, "U+FF0C", "U+6389U+843D", "U+FF1A",
       currentAreaInfo.tier, "\n",
       "Next", "U+FF1A", nextAreaInfo.name, "U+FF0C", "U+6389U+843D", "U+FF1A",
       nextAreaInfo.tier >>

processTzOnlineData(data) ==
    IF isInvalidFormat(data) THEN Throw(<<"Invalid data format">>)
    ELSE LET sortedData == sort(data.data)
             currentZoneId == sortedData[1].zone
             nextZoneId == sortedData[2].zone
         IN  IF ~hasAreaInfo(currentZoneId)
             THEN Throw(<<"Area info not found for current zone: ", ToString(currentZoneId)>>)
             ELSE IF ~hasAreaInfo(nextZoneId)
             THEN Throw(<<"Area info not found for next zone: ", ToString(nextZoneId)>>)
             ELSE Value(message(areas[currentZoneId], areas[nextZoneId]))

(***************************************************************************)
(* The file cache and the rotation API.  JSON text is the value between    *)
(* its delimiters; a text that lacks a delimiter does not parse.           *)
(***************************************************************************)
NoFile == [exists |-> FALSE]

JSONstringify(data) == <<"{", data, "}">>

JSONparses(text) == Len(text) = 3 /\ text[1] = "{" /\ text[3] = "}"

JSONparse(text) == text[2]

\* The write left unfinished when the step ends.
writeFileTruncated(file, text, t) ==
    [exists |-> TRUE, content |-> SubSeq(text, 1, 1), mtime |-> t]

\* The text added to what the file holds.
appendFileSync(file, text, t) ==
    [exists |-> TRUE, content |-> (IF file.exists THEN file.content ELSE <<>>) \o text,
     mtime |-> t]

\* fs.writeFileSync replaces the content of the file at once: no other
\* invocation runs inside a synchronous call.
writeFileSync(file, text, t) == [exists |-> TRUE, content |-> text, mtime |-> t]

Entry(z, t) == [zone |-> z, time |-> t]

ArrayPayload(s) == [shape |-> "array", data |-> s]

\* What the rotation API may answer: the specification's example, a later
\* rotation, and a payload with a single entry.
TzPayloads ==
    { ArrayPayload(<<Entry(1, 200), Entry(2, 100)>>),
      ArrayPayload(<<Entry(2, 200), Entry(1, 300)>>),
      ArrayPayload(<<Entry(1, 100)>>) }

\* A response: ok with a JSON body, ok with a body that is not JSON, or a
\* status outside 200..299.
Responses ==
    { [ok |-> TRUE, status |-> 200, body |-> JSONstringify(p)] : p \in TzPayloads }
    \cup { [ok |-> TRUE, status |-> 200, body |-> <<"<html>">>],
           [ok |-> FALSE, status |-> 500, body |-> <<"<html>">>] }

NoResponse == [ok |-> FALSE, status |-> 0, body |-> <<>>]

\* d2rtz: return info, or '获取TZ信息失败: ' + error.message
d2rtzReply(r) ==
    IF r.kind = "value" THEN r.text
    ELSE <<"U+83B7U+53D6TZU+4FE1U+606FU+5931U+8D25: ">> \o r.text

cacheHit(file, n) ==
    file.exists /\ isWithin30Minutes(n, file.mtime) /\ isSameHour(n, file.mtime)

\* The record of a step of invocation p: the cache file and the number of
\* GETs it found, what fetchTzOnline gave (None while it is suspended) and the
\* handler's reply.
Event(kind, p, r) ==
    [kind |-> kind, p |-> p, at |-> now, file |-> cache, net |-> netCalls, ret |-> r,
     reply |-> IF r.kind = "data" THEN d2rtzReply(processTzOnlineData(r.data))
               ELSE IF r.kind = "throw" THEN d2rtzReply(Throw(r.text))
               ELSE <<>>]

Data(data) == [kind |-> "data", data |-> data]

Thrown(text) == [kind |-> "throw", text |-> text]

otherThanTz == <<fmtVars, ocrVars, cmdVars>>

otherThanFmt == <<tzVars, ocrVars, cmdVars>>

otherThanOcr == <<tzVars, fmtVars, cmdVars>>

otherThanCmd == <<tzVars, fmtVars, ocrVars>>

\* The rotation lookup at rest.
TzIdle ==
    /\ now = 0
    /\ ticks = 0
    /\ cache = NoFile
    /\ pc = [p \in Procs |-> "idle"]
    /\ resp = [p \in Procs |-> NoResponse]
    /\ calls = 0
    /\ netCalls = 0
    /\ lastOk = None
    /\ ev = None

FmtIdle == fmtIn = [shape |-> "null", data |-> <<>>] /\ fmtOut = None

OcrIdle == ocrIn = <<>> /\ ocrOut = None

CmdIdle == cmd = None

TzInit ==
    /\ now \in StartTimes
    /\ ticks = 0
    /\ cache = NoFile
    /\ pc = [p \in Procs |-> "idle"]
    /\ resp = [p \in Procs |-> NoResponse]
    /\ calls = 0
    /\ netCalls = 0
    /\ lastOk = None
    /\ ev = None

\* The clock advances.
Tick(d) ==
    /\ ticks < MaxTicks
    /\ ticks' = ticks + 1
    /\ now' = now + d
    /\ UNCHANGED <<cache, pc, resp, calls, netCalls, lastOk, ev>>
    /\ UNCHANGED otherThanTz

\* d2rtz is invoked: getTzInfo calls fetchTzOnline, which runs up to its
\* first await.  On a valid cache the file is read and parsed and the handler
\* replies; otherwise the GET is issued.
Invoke(p) ==
    /\ pc[p] = "idle"
    /\ calls < MaxCalls
    /\ calls' = calls + 1
    /\ IF cacheHit(cache, now)
       THEN /\ ev' = Event("hit", p,
                        IF JSONparses(cache.content) THEN Data(JSONparse(cache.content))
                        ELSE Thrown(<<"SyntaxError">>))
            /\ UNCHANGED <<pc, netCalls>>
       ELSE /\ ev' = Event("miss", p, None)
            /\ pc' = [pc EXCEPT ![p] = "awaitFetch"]
            /\ netCalls' = netCalls + 1
    /\ UNCHANGED <<now, ticks, cache, resp, lastOk>>
    /\ UNCHANGED otherThanTz

\* await fetch(url) resolves with a response; a status outside 200..299
\* throws 'HTTP error! status: N'.
FetchResolve(p, r) ==
    /\ pc[p] = "awaitFetch"
    /\ IF ~r.ok
       THEN /\ ev' = Event("httpError", p,
                        Thrown(<<"HTTP error! status: ", ToString(r.status)>>))
            /\ pc' = [pc EXCEPT ![p] = "idle"]
            /\ resp' = resp
       ELSE /\ resp' = [resp EXCEPT ![p] = r]
            /\ pc' = [pc EXCEPT ![p] = "awaitJson"]
            /\ ev' = ev
    /\ UNCHANGED <<now, ticks, cache, calls, netCalls, lastOk>>
    /\ UNCHANGED otherThanTz

\* await fetch(url) rejects: a network error.
FetchReject(p) ==
    /\ pc[p] = "awaitFetch"
    /\ ev' = Event("netError", p, Thrown(<<"fetch failed">>))
    /\ pc' = [pc EXCEPT ![p] = "idle"]
    /\ UNCHANGED <<now, ticks, cache, resp, calls, netCalls, lastOk>>
    /\ UNCHANGED otherThanTz

\* await response.json() settles.  With the data the cache file is written,
\* fetchTzOnline returns the data and the handler replies.
JsonSettle(p) ==
    /\ pc[p] = "awaitJson"
    /\ pc' = [pc EXCEPT ![p] = "idle"]
    /\ resp' = [resp EXCEPT ![p] = NoResponse]
    /\ IF JSONparses(resp[p].body)
       THEN LET data == JSONparse(resp[p].body)
            IN  /\ cache' = writeFileSync(cache, JSONstringify(data), now)
                /\ lastOk' = [kind |-> "fetched", data |-> data, at |-> now]
                /\ ev' = Event("fetched", p, Data(data))
       ELSE /\ ev' = Event("badJson", p, Thrown(<<"SyntaxError">>))
            /\ UNCHANGED <<cache, lastOk>>
    /\ UNCHANGED <<now, ticks, calls, netCalls>>
    /\ UNCHANGED otherThanTz

TzNext ==
    \/ \E d \in ClockSteps : Tick(d)
    \/ \E p \in Procs : Invoke(p)
    \/ \E p \in Procs, r \in Responses : FetchResolve(p, r)
    \/ \E p \in Procs : FetchReject(p)
    \/ \E p \in Procs : JsonSettle(p)

(***************************************************************************)
(* The formatter on its own: processTzOnlineData applied to a payload.     *)
(***************************************************************************)
\* Zone ids 1 and 2 are in the area table, 3 is not.
ZoneIds == {1, 2, 3}

Times == {100, 200, 300}

Entries == {Entry(z, t) : z \in ZoneIds, t \in Times}

SeqsUpTo(S, n) == UNION {[1..k -> S] : k \in 0..n}

FmtPayloads ==
    {[shape |-> sh, data |-> <<>>] : sh \in {"null", "nodata", "nonarray"}}
    \cup {ArrayPayload(d) : d \in SeqsUpTo(Entries, MaxEntries)}

FmtInit == fmtIn \in FmtPayloads /\ fmtOut = None

Format ==
    /\ fmtOut = None
    /\ fmtOut' = processTzOnlineData(fmtIn)
    /\ UNCHANGED fmtIn
    /\ UNCHANGED otherThanFmt

FmtNext == Format

(***************************************************************************)
(* index.ts: preprocessOcrText.  A text is a sequence of pieces: one       *)
(* character each, except that "ETH", "ED", the three level-requirement    *)
(* phrases and ordinary words stand as one piece (none of their characters *)
(* is special to a pattern of the function).                               *)
(***************************************************************************)
\* The least index j >= i of s with s[j] in set, or 0.
RECURSIVE indexFrom(_, _, _)
indexFrom(s, i, set) ==
    IF i > Len(s) THEN 0 ELSE IF s[i] \in set THEN i ELSE indexFrom(s, i + 1, set)

Whitespace == {" ", "\n"}

Colons == {"U+FF1A", ":"}

Digits == {"9"}

at(s, i) == IF i \in 1..Len(s) THEN s[i] ELSE "<end>"

\* The pattern without its lookahead.
isETHAtNever(s, i) == FALSE

\* (?!ETH\]) fails at the '[' of i
isETHAt(s, i) == at(s, i) = "[" /\ at(s, i + 1) = "ETH" /\ at(s, i + 2) = "]"

\* .replace(/\[(?!ETH\])[^\]]*\]/g, '')
RECURSIVE stripBracketsFrom(_, _)
stripBracketsFrom(s, i) ==
    IF i > Len(s) THEN <<>>
    ELSE LET close == indexFrom(s, i + 1, {"]"})
         IN  IF s[i] = "[" /\ ~isETHAt(s, i) /\ close # 0
             THEN stripBracketsFrom(s, close + 1)
             ELSE <<s[i]>> \o stripBracketsFrom(s, i + 1)

\* The least index j >= i of s with s[j] not in set, or Len(s) + 1.
RECURSIVE skipWhile(_, _, _)
skipWhile(s, i, set) ==
    IF i > Len(s) THEN i ELSE IF s[i] \in set THEN skipWhile(s, i + 1, set) ELSE i

\* .replace(/\[\d+ED\/[\d\/]+\]/g, '')
RECURSIVE stripNumericTagsFrom(_, _)
stripNumericTagsFrom(s, i) ==
    IF i > Len(s) THEN <<>>
    ELSE LET d == skipWhile(s, i + 1, Digits)
             e == skipWhile(s, d + 2, Digits \cup {"/"})
         IN  IF /\ s[i] = "[" /\ d > i + 1
                /\ at(s, d) = "ED" /\ at(s, d + 1) = "/"
                /\ e > d + 2 /\ at(s, e) = "]"
             THEN stripNumericTagsFrom(s, e + 1)
             ELSE <<s[i]>> \o stripNumericTagsFrom(s, i + 1)

\* .replace(/『[^』]*』/g, '')
RECURSIVE stripCornerBracketsFrom(_, _)
stripCornerBracketsFrom(s, i) ==
    IF i > Len(s) THEN <<>>
    ELSE LET close == indexFrom(s, i + 1, {"U+300F"})
         IN  IF s[i] = "U+300E" /\ close # 0
             THEN stripCornerBracketsFrom(s, close + 1)
             ELSE <<s[i]>> \o stripCornerBracketsFrom(s, i + 1)

\* The index of the line end at or after i: '.' does not match a line break.
lineEnd(s, i) == LET n == indexFrom(s, i, {"\n"}) IN IF n = 0 THEN Len(s) + 1 ELSE n

\* .replace(/缀[：:].*/g, '')
RECURSIVE stripSuffixFrom(_, _)
stripSuffixFrom(s, i) ==
    IF i > Len(s) THEN <<>>
    ELSE IF s[i] = "U+7F00" /\ at(s, i + 1) \in Colons
         THEN stripSuffixFrom(s, lineEnd(s, i + 2))
         ELSE <<s[i]>> \o stripSuffixFrom(s, i + 1)

\* .replace(/前缀[：:].*/g, '')
RECURSIVE stripPrefixFrom(_, _)
stripPrefixFrom(s, i) ==
    IF i > Len(s) THEN <<>>
    ELSE IF s[i] = "U+524D" /\ at(s, i + 1) = "U+7F00" /\ at(s, i + 2) \in Colons
         THEN stripPrefixFrom(s, lineEnd(s, i + 3))
         ELSE <<s[i]>> \o stripPrefixFrom(s, i + 1)

\* The greatest index of a line break in i..j of s, or 0.
RECURSIVE lastBreak(_, _, _)
lastBreak(s, i, j) ==
    IF j < i THEN 0 ELSE IF s[j] = "\n" THEN j ELSE lastBreak(s, i, j - 1)

\* .replace(/\n\s*\n/g, '\n'): \s* is greedy, so the match runs to the last
\* line break of the white space that follows.
RECURSIVE collapseBlankLinesFrom(_, _)
collapseBlankLinesFrom(s, i) ==
    IF i > Len(s) THEN <<>>
    ELSE LET last == lastBreak(s, i + 1, skipWhile(s, i + 1, Whitespace) - 1)
         IN  IF s[i] = "\n" /\ last # 0
             THEN <<"\n">> \o collapseBlankLinesFrom(s, last + 1)
             ELSE <<s[i]>> \o collapseBlankLinesFrom(s, i + 1)

RECURSIVE trimEnd(_)
trimEnd(s) == IF s # <<>> /\ s[Len(s)] \in Whitespace THEN trimEnd(SubSeq(s, 1, Len(s) - 1)) ELSE s

\* .trim()
trim(s) == LET i == skipWhile(s, 1, Whitespace) IN trimEnd(SubSeq(s, i, Len(s)))

\* .split('\n')
RECURSIVE split(_)
split(s) ==
    LET n == indexFrom(s, 1, {"\n"})
    IN  IF n = 0 THEN <<s>> ELSE <<SubSeq(s, 1, n - 1)>> \o split(SubSeq(s, n + 1, Len(s)))

\* .join('\n')
RECURSIVE join(_)
join(ls) ==
    IF ls = <<>> THEN <<>>
    ELSE IF Len(ls) = 1 THEN ls[1] ELSE ls[1] \o <<"\n">> \o join(Tail(ls))

includes(line, phrase) == \E k \in DOMAIN line : line[k] = phrase

\* 需要等級, 等级需求, Requires Level
hasLevelRequirement(line) ==
    \/ includes(line, "U+9700U+8981U+7B49U+7D1A")
    \/ includes(line, "U+7B49U+7EA7U+9700U+6C42")
    \/ includes(line, "Requires Level")

\* The index in 1..Len(lines) of the first line with a level requirement, or
\* 0 (levelRequirementIndex + 1).
RECURSIVE levelRequirementLine(_, _)
levelRequirementLine(lines, i) ==
    IF i > Len(lines) THEN 0
    ELSE IF hasLevelRequirement(lines[i]) THEN i ELSE levelRequirementLine(lines, i + 1)

\* The substitutions and the trim that give processedText.
processedText(ocrText) ==
    trim(collapseBlankLinesFrom(
        stripPrefixFrom(
            stripSuffixFrom(
                stripCornerBracketsFrom(
                    stripNumericTagsFrom(
                        stripBracketsFrom(ocrText, 1), 1), 1), 1), 1), 1))

min(a, b) == IF a < b THEN a ELSE b

\* lines.slice(0, Math.min(3, levelRequirementIndex))
nameLines(lines, idx) == SubSeq(lines, 1, min(3, idx - 1))

preprocessOcrText(ocrText) ==
    LET text == processedText(ocrText)
        lines == split(text)
        idx == levelRequirementLine(lines, 1)
    IN  IF idx # 0
        THEN trim(join(nameLines(lines, idx) \o SubSeq(lines, idx, Len(lines))))
        ELSE text

(***************************************************************************)
(* The preprocessor on its own: preprocessOcrText applied to an OCR text.  *)
(***************************************************************************)
OcrAlphabet == {"[", "]", "ETH", "x", "\n", " ", "U+7F00", ":"}

\* Lines of an item tooltip: a property with a numeric tag, an ethereal
\* marker, the level requirement in four phrasings (需要等級, 需要等级,
\* 等级需求, Requires Level) and a 『』 note with a 前缀： annotation.
LineChoices ==
    { <<"x", "[", "9", "9", "ED", "/", "9", "/", "9", "]">>,
      <<"[", "ETH", "]", "x">>,
      <<"U+9700U+8981U+7B49U+7D1A", " ", "9">>,
      <<"U+9700U+8981U+7B49U+7EA7", " ", "9">>,
      <<"U+7B49U+7EA7U+9700U+6C42", " ", "9">>,
      <<"Requires Level", " ", "9">>,
      <<"U+300E", "x", "U+300F", "U+524D", "U+7F00", "U+FF1A", "x">> }

\* The pieces of the annotations: square and corner brackets, 缀 and the
\* fullwidth colon, with the marker and the line break.
AnnotationAlphabet == {"[", "]", "ETH", "U+300E", "U+300F", "U+7F00", "U+FF1A", "\n"}

\* Lines in which annotations meet a marker: a marker inside a 『』 note,
\* after 缀：, after a 缀 and a colon that a removed annotation held apart,
\* before a 缀: annotation, next to a 『 or a 缀 that an annotation holds, and the
\* halves of a square-bracketed and of a corner-bracketed annotation that
\* runs over a line break.
AnnotatedLines ==
    { <<"U+300E", "x", "[", "ETH", "]", "U+300F", "x">>,
      <<"x", "U+7F00", "U+FF1A", "x", "[", "ETH", "]">>,
      <<"U+7F00", "[", "x", "]", ":", "[", "ETH", "]">>,
      <<"[", "ETH", "]", "x", "U+7F00", ":", "x">>,
      <<"[", "U+300E", "]", "[", "ETH", "]", "U+300F">>,
      <<"[", "U+7F00", "]", ":", "[", "ETH", "]">>,
      <<"x", "U+7F00", "U+FF1A", "[", "x">>,
      <<"x", "]", "[", "ETH", "]", "x">>,
      <<"x", "U+300E", "x">>,
      <<"[", "ETH", "]", "U+300F", "[", "ETH", "]">> }

OcrTexts ==
    SeqsUpTo(OcrAlphabet, MaxTokens)
    \cup SeqsUpTo(AnnotationAlphabet, MaxTokens)
    \cup {join(<<a, b>>) : a, b \in AnnotatedLines}
    \cup {join(ls) : ls \in UNION {[1..k -> LineChoices] : k \in 1..MaxLines}}

OcrInit == ocrIn \in OcrTexts /\ ocrOut = None

Preprocess ==
    /\ ocrOut = None
    /\ ocrOut' = [kind |-> "text", text |-> preprocessOcrText(ocrIn)]
    /\ UNCHANGED ocrIn
    /\ UNCHANGED otherThanOcr

OcrNext == Preprocess

(***************************************************************************)
(* index.ts: recognizeImage, analyzeItem and the handler of the 鉴定        *)
(* command.  The invocation is the record cmd; each operator below gives   *)
(* the record after the code has run up to its next await.                 *)
(***************************************************************************)
\* No image reference: undefined or ''.
NoSrc == ""

NoResult == [success |-> FALSE, text |-> <<>>, error |-> <<>>, set |-> FALSE]

Success(text) == [success |-> TRUE, text |-> text, error |-> <<>>, set |-> TRUE]

Failure(error) == [success |-> FALSE, text |-> <<>>, error |-> error, set |-> TRUE]

\* 暗黑破坏神装备信息：/ 力量 +15 / 敏捷 +10 / 最大生命值 +20 / 防御 +50 /
\* 等级需求 25 / 稀有度：魔法物品
mockOcrText ==
    << "x", "U+FF1A", "\n", "x", " ", "9", "\n", "x", " ", "9", "\n", "x", " ", "9", "\n",
       "x", " ", "9", "\n", "U+7B49U+7EA7U+9700U+6C42", " ", "9", "\n", "x", "U+FF1A", "x" >>

\* 这是一件中级魔法装备，...
mockAnalysis == <<"mock analysis">>

\* prompts.ts: the user prompt built around the preprocessed text.
itemAnalysisPrompt(text) == <<"<item>">> \o text \o <<"</item>">>

Log(c, step) == [c EXCEPT !.log = Append(@, step)]

Reply(c, text) == [c EXCEPT !.pc = "replied", !.reply = text]

\* analyzeItem up to its first await: the canned analysis in mock mode,
\* otherwise the preprocessing and the POST to the AI API.
analyzeItem(c, ocrText) ==
    IF c.mockMode
    THEN [Log(c, "ai") EXCEPT !.pc = "aiMockDelay"]
    ELSE [Log(Log(c, "preprocess"), "ai") EXCEPT
             !.pc = "awaitAiFetch",
             !.prompt = itemAnalysisPrompt(preprocessOcrText(ocrText))]

\* The handler once analyzeItem has returned.
afterAnalyzeItem(c, result) ==
    LET d == [c EXCEPT !.ai = result]
    IN  IF ~result.success
        THEN Reply(d, <<"U+88C5U+5907U+4EF7U+503CU+5206U+6790U+5931U+8D25: ">> \o result.error)
        ELSE Reply(d, result.text)

\* recognizeImage up to its first await: the delay of mock mode, otherwise
\* the POST to the OCR API.
recognizeImage(c, imageUrl) ==
    [Log(c, "ocr") EXCEPT !.pc = IF c.mockMode THEN "ocrMockDelay" ELSE "awaitOcrFetch"]

ocrFailedNever(result) == FALSE

\* !ocrResult.success
ocrFailed(result) == ~result.success

\* The handler once recognizeImage has returned.
afterRecognizeImage(c, result) ==
    LET d == [c EXCEPT !.ocr = result]
    IN  IF ocrFailed(result)
        THEN Reply(d, <<"U+88C5U+5907U+5C5EU+6027U+8BC6U+522BU+5931U+8D25: ">> \o result.error)
        ELSE analyzeItem(d, result.text)

\* The handler from `if (!src)` after the prompt block.
afterPromptBlock(c) ==
    IF c.src = NoSrc
    THEN Reply(c, <<"U+672AU+68C0U+6D4BU+5230U+6709U+6548U+7684U+88C5U+5907U+622AU+56FEU+FF0CU+8BF7U+91CDU+65B0U+53D1U+9001U+3002">>)
    ELSE recognizeImage(c, c.src)

firstOf(a, b) == IF a # NoSrc THEN a ELSE b

\* The <image:text> argument as the string the handler receives: its text
\* followed by the markup of its image element, '' when there is neither.
imageString(image) ==
    image.text \o (IF image.img # NoSrc THEN <<"<img src=", image.img, "/>">> ELSE <<>>)

\* The handler without the `if (config.testMode)` block.
handlerStartWithoutTestMode(c) ==
    LET d == [c EXCEPT !.src = firstOf(c.image.img, firstOf(c.quote.img, c.quote.mface))]
    IN  IF d.src = NoSrc
        THEN [Log(d, "send") EXCEPT !.pc = "awaitSend"]
        ELSE afterPromptBlock(d)

\* The handler from its start to its first await.
handlerStart(c) ==
    IF c.testMode
    THEN IF imageString(c.image) = <<>>
         THEN Reply(c, <<"U+6D4BU+8BD5U+6A21U+5F0FU+4E0BU+FF0CU+8BF7U+76F4U+63A5U+8F93U+5165OCRU+8BC6U+522BU+540EU+7684U+6587U+672CU+5185U+5BB9U+3002">>)
         ELSE analyzeItem(c, imageString(c.image))
    ELSE LET d == [c EXCEPT !.src = firstOf(c.image.img, firstOf(c.quote.img, c.quote.mface))]
         IN  IF d.src = NoSrc
             THEN [Log(d, "send") EXCEPT !.pc = "awaitSend"]
             ELSE afterPromptBlock(d)

deleteSettledUncaught(c, ok) ==
    IF ok THEN afterPromptBlock(c) ELSE [c EXCEPT !.pc = "threw", !.thrown = <<"delete failed">>]

\* try { await session.bot.deleteMessage(...) } catch { warn }
deleteSettled(c, ok) == afterPromptBlock(IF ok THEN c ELSE Log(c, "warn"))

\* Texts an OCR answer may carry: the two examples of the specification,
\* 力量+10[290ED/6/6/4] / 需要等级 25 / 稀有度：魔法 and [ETH]无形之刃 / 需要等级 30.
CmdTexts ==
    { << "x", "[", "9", "9", "ED", "/", "9", "/", "9", "]", "\n",
         "U+9700U+8981U+7B49U+7EA7", " ", "9", "\n", "x", "U+FF1A", "x" >>,
      << "[", "ETH", "]", "x", "\n", "U+9700U+8981U+7B49U+7EA7", " ", "9" >> }

\* A chat-completion answer: a status outside 200..299, a body that does not
\* parse or lacks choices, a body without content, a body with content.
ApiResponses(texts) ==
    { [ok |-> FALSE, status |-> "500", statusText |-> "Internal Server Error",
       body |-> "none", content |-> <<>>],
      [ok |-> TRUE, status |-> "200", statusText |-> "OK", body |-> "invalid", content |-> <<>>],
      [ok |-> TRUE, status |-> "200", statusText |-> "OK", body |-> "json", content |-> <<>>] }
    \cup { [ok |-> TRUE, status |-> "200", statusText |-> "OK", body |-> "json", content |-> t] :
             t \in texts }

Analyses == {<<"analysis">>}

\* What session.prompt resolves with: undefined after 30 seconds, or the
\* content of the follow-up message.
PromptContents ==
    { [defined |-> FALSE, img |-> NoSrc, mface |-> NoSrc],
      [defined |-> TRUE, img |-> NoSrc, mface |-> NoSrc],
      [defined |-> TRUE, img |-> "prompt.png", mface |-> NoSrc],
      [defined |-> TRUE, img |-> NoSrc, mface |-> "prompt.mface"],
      [defined |-> TRUE, img |-> "prompt.png", mface |-> "prompt.mface"] }

Images ==
    { [text |-> <<>>, img |-> NoSrc],
      [text |-> <<"x">>, img |-> NoSrc],
      [text |-> <<>>, img |-> "arg.png"] }
    \cup { [text |-> t, img |-> NoSrc] : t \in CmdTexts }

Quotes ==
    { [img |-> i, mface |-> m] : i \in {NoSrc, "quote.png"}, m \in {NoSrc, "quote.mface"} }

CmdInit ==
    cmd \in [ kind : {"cmd"}, testMode : BOOLEAN, mockMode : BOOLEAN,
              image : Images, quote : Quotes,
              pc : {"start"}, src : {NoSrc}, hadSrc : {FALSE}, resp : {None},
              ocr : {NoResult}, ai : {NoResult}, prompt : {<<>>},
              log : {<<>>}, reply : {<<>>}, thrown : {<<>>} ]

\* The command is invoked.
CmdStart ==
    /\ cmd.pc = "start"
    /\ cmd' = LET c == handlerStart(cmd)
              IN  [c EXCEPT !.hadSrc = ~c.testMode /\ c.src # NoSrc]
    /\ UNCHANGED otherThanCmd

\* await session.send(...) resolves with the message id; session.prompt is
\* called.
SendResolve ==
    /\ cmd.pc = "awaitSend"
    /\ cmd' = [Log(cmd, "prompt") EXCEPT !.pc = "awaitPrompt"]
    /\ UNCHANGED otherThanCmd

\* await session.send(...) rejects; nothing in the handler catches it.
SendReject ==
    /\ cmd.pc = "awaitSend"
    /\ cmd' = [cmd EXCEPT !.pc = "threw", !.thrown = <<"send failed">>]
    /\ UNCHANGED otherThanCmd

\* await session.prompt(30000) resolves; the image reference is taken from
\* the follow-up message and deleteMessage is called.
PromptResolve(content) ==
    /\ cmd.pc = "awaitPrompt"
    /\ cmd' = [Log(cmd, "delete") EXCEPT
                  !.pc = "awaitDelete",
                  !.src = IF content.defined THEN firstOf(content.img, content.mface) ELSE @]
    /\ UNCHANGED otherThanCmd

\* await deleteMessage settles.
DeleteSettle(ok) ==
    /\ cmd.pc = "awaitDelete"
    /\ cmd' = deleteSettled(cmd, ok)
    /\ UNCHANGED otherThanCmd

\* Mock mode: the one second delay of recognizeImage ends.
OcrMockDelay ==
    /\ cmd.pc = "ocrMockDelay"
    /\ cmd' = afterRecognizeImage(cmd, Success(mockOcrText))
    /\ UNCHANGED otherThanCmd

\* await fetch(config.ocrApiUrl) resolves.
OcrFetchResolve(r) ==
    /\ cmd.pc = "awaitOcrFetch"
    /\ cmd' = IF ~r.ok
              THEN afterRecognizeImage(cmd,
                       Failure(<<"OCRU+8BF7U+6C42U+5931U+8D25: ", r.status, " ", r.statusText>>))
              ELSE [cmd EXCEPT !.pc = "awaitOcrJson", !.resp = r]
    /\ UNCHANGED otherThanCmd

\* await fetch(config.ocrApiUrl) rejects.
OcrFetchReject ==
    /\ cmd.pc = "awaitOcrFetch"
    /\ cmd' = afterRecognizeImage(cmd,
                  Failure(<<"OCRU+8BC6U+522BU+51FAU+9519: ", "fetch failed">>))
    /\ UNCHANGED otherThanCmd

\* await response.json() of the OCR answer settles:
\* result.choices?.[0]?.message?.content || '无法提取OCR文本'
OcrJsonSettle ==
    /\ cmd.pc = "awaitOcrJson"
    /\ cmd' = LET c == [cmd EXCEPT !.resp = None]
                  r == cmd.resp
              IN  IF r.body = "invalid"
                  THEN afterRecognizeImage(c,
                           Failure(<<"OCRU+8BC6U+522BU+51FAU+9519: ", "SyntaxError">>))
                  ELSE afterRecognizeImage(c,
                           Success(IF r.content # <<>> THEN r.content
                                   ELSE <<"U+65E0U+6CD5U+63D0U+53D6OCRU+6587U+672C">>))
    /\ UNCHANGED otherThanCmd

\* Mock mode: the one and a half second delay of analyzeItem ends.
AiMockDelay ==
    /\ cmd.pc = "aiMockDelay"
    /\ cmd' = afterAnalyzeItem(cmd, Success(mockAnalysis))
    /\ UNCHANGED otherThanCmd

\* await fetch(config.aiApiUrl) resolves.
AiFetchResolve(r) ==
    /\ cmd.pc = "awaitAiFetch"
    /\ cmd' = IF ~r.ok
              THEN afterAnalyzeItem(cmd,
                       Failure(<<"AIU+5206U+6790U+8BF7U+6C42U+5931U+8D25: ", r.status, " ", r.statusText>>))
              ELSE [cmd EXCEPT !.pc = "awaitAiJson", !.resp = r]
    /\ UNCHANGED otherThanCmd

\* await fetch(config.aiApiUrl) rejects.
AiFetchReject ==
    /\ cmd.pc = "awaitAiFetch"
    /\ cmd' = afterAnalyzeItem(cmd,
                  Failure(<<"AIU+5206U+6790U+51FAU+9519: ", "fetch failed">>))
    /\ UNCHANGED otherThanCmd

\* await response.json() of the AI answer settles:
\* result.choices?.[0]?.message?.content || '无法获取AI分析结果'
AiJsonSettle ==
    /\ cmd.pc = "awaitAiJson"
    /\ cmd' = LET c == [cmd EXCEPT !.resp = None]
                  r == cmd.resp
              IN  IF r.body = "invalid"
                  THEN afterAnalyzeItem(c,
                           Failure(<<"AIU+5206U+6790U+51FAU+9519: ", "SyntaxError">>))
                  ELSE afterAnalyzeItem(c,
                           Success(IF r.content # <<>> THEN r.content
                                   ELSE <<"U+65E0U+6CD5U+83B7U+53D6AIU+5206U+6790U+7ED3U+679C">>))
    /\ UNCHANGED otherThanCmd

CmdNext ==
    \/ CmdStart
    \/ SendResolve
    \/ SendReject
    \/ \E content \in PromptContents : PromptResolve(content)
    \/ \E ok \in BOOLEAN : DeleteSettle(ok)
    \/ OcrMockDelay
    \/ \E r \in ApiResponses(CmdTexts) : OcrFetchResolve(r)
    \/ OcrFetchReject
    \/ OcrJsonSettle
    \/ AiMockDelay
    \/ \E r \in ApiResponses(Analyses) : AiFetchResolve(r)
    \/ AiFetchReject
    \/ AiJsonSettle

Init == TzInit /\ FmtIdle /\ OcrIdle /\ CmdIdle

Next == TzNext

\* Concurrent d2rtz invocations over the rotation API and the cache file.
Spec == Init /\ [][Next]_vars

\* processTzOnlineData over the payloads of FmtPayloads.
InitFmt == TzIdle /\ FmtInit /\ OcrIdle /\ CmdIdle

SpecFmt == InitFmt /\ [][FmtNext]_vars

\* preprocessOcrText over the texts of OcrTexts.
InitOcr == TzIdle /\ FmtIdle /\ OcrInit /\ CmdIdle

SpecOcr == InitOcr /\ [][OcrNext]_vars

\* One invocation of the 鉴定 command under every configuration and message.
InitCmd == TzIdle /\ FmtIdle /\ OcrIdle /\ CmdInit

SpecCmd == InitCmd /\ [][CmdNext]_vars

(***************************************************************************)
(* Properties of the rotation cache.                                       *)
(***************************************************************************)
\* The instants a and b lie in the same hour of the same day.
SameCalendarHour(a, b) == a \div 60 = b \div 60

CacheValidAt(file, t) == file.exists /\ SameCalendarHour(t, file.mtime) /\ t - file.mtime < 30

\* C1: a request at time T' against a cache file written at time T returns
\* the cached JSON and issues no GET if and only if T' and T lie in the same
\* calendar hour and T' - T < 30 minutes; in every other case, no cache file
\* included, it issues one GET.
TheoremC1 ==
    ev.kind \in {"hit", "miss"} =>
        /\ ev.kind = "hit" <=> CacheValidAt(ev.file, ev.at)
        /\ ev.kind = "hit" =>
              /\ netCalls = ev.net
              /\ ev.ret.kind = "data"
              /\ JSONstringify(ev.ret.data) = ev.file.content
        /\ ev.kind = "miss" => netCalls = ev.net + 1 /\ ev.ret = None

\* A request served from a cache file written 29 minutes earlier.
WitnessC1 == ev.kind = "hit" /\ ev.at - ev.file.mtime = 29

\* C6: the cache file is absent or holds exactly the payload of the most
\* recent successful fetch; a successful fetch overwrites it, and a cache hit
\* or a failed fetch leaves it as the step found it.
TheoremC6 ==
    /\ \/ ~cache.exists /\ lastOk = None
       \/ /\ cache.exists
          /\ lastOk # None
          /\ cache.content = JSONstringify(lastOk.data)
          /\ cache.mtime = lastOk.at
    /\ ev.kind = "fetched" => cache.content = JSONstringify(ev.ret.data)
    /\ ev.kind \in {"hit", "miss", "httpError", "netError", "badJson"} => cache = ev.file

\* A successful fetch that replaced another payload in the file.
WitnessC6 == ev.kind = "fetched" /\ ev.file.exists /\ ev.file.content # cache.content

\* C7: under every interleaving of invocations the cache file holds one whole
\* payload, a cache read always parses, and every invocation that gets data
\* gets a whole payload, the cached one or the one it fetched.
TheoremC7 ==
    /\ cache.exists => JSONparses(cache.content) /\ JSONparse(cache.content) \in TzPayloads
    /\ ev.kind = "hit" => ev.ret.kind = "data" /\ ev.ret.data = JSONparse(ev.file.content)
    /\ ev.kind # "none" /\ ev.ret.kind = "data" => ev.ret.data \in TzPayloads

\* Two invocations raced: one wrote the file while the other was fetching,
\* and the other then overwrote it with another payload at the same instant.
WitnessC7 ==
    /\ ev.kind = "fetched"
    /\ ev.file.exists
    /\ ev.file.mtime = ev.at
    /\ ev.file.content # cache.content
    /\ netCalls >= 2

(***************************************************************************)
(* Properties of the formatter.                                            *)
(***************************************************************************)
IsArrayOfTwo(data) == data.shape = "array" /\ Len(data.data) >= 2

\* Entry i has the smallest time, entry j the smallest time among the others.
IsCurrentAndNext(d, i, j) ==
    /\ i \in DOMAIN d /\ j \in DOMAIN d /\ i # j
    /\ \A k \in DOMAIN d : d[i].time <= d[k].time
    /\ \A k \in DOMAIN d \ {i} : d[j].time <= d[k].time

Mapped(z) == \E i \in DOMAIN rawAreas : rawAreas[i].id = z

AreaOf(z) == rawAreas[CHOOSE i \in DOMAIN rawAreas : rawAreas[i].id = z]

Line(label, z) ==
    <<label, "U+FF1A", AreaOf(z).name.zhcn, "U+FF0C", "U+6389U+843D", "U+FF1A",
      AreaOf(z).tierloot>>

\* C2: for a data array of at least two entries whose zone ids are mapped the
\* output is 'TZ:<name>,drop:<tier>\nNext:<name>,drop:<tier>', the first line
\* for the entry with the smallest time and the second for the entry with the
\* second-smallest time, whatever the order of the entries; and every string
\* the formatter gives has this form.
TheoremC2 ==
    fmtOut # None =>
        /\ IsArrayOfTwo(fmtIn) /\ (\A k \in DOMAIN fmtIn.data : Mapped(fmtIn.data[k].zone))
              => fmtOut.kind = "value"
        /\ fmtOut.kind = "value" =>
              \E i, j \in DOMAIN fmtIn.data :
                  /\ IsCurrentAndNext(fmtIn.data, i, j)
                  /\ Mapped(fmtIn.data[i].zone) /\ Mapped(fmtIn.data[j].zone)
                  /\ fmtOut.text = Line("TZ", fmtIn.data[i].zone) \o <<"\n">>
                                     \o Line("Next", fmtIn.data[j].zone)
        /\ fmtIn = ArrayPayload(<<Entry(1, 200), Entry(2, 100)>>) =>
              fmtOut.text = <<"TZ", "U+FF1A", "B", "U+FF0C", "U+6389U+843D", "U+FF1A", "Y", "\n",
                              "Next", "U+FF1A", "A", "U+FF0C", "U+6389U+843D", "U+FF1A", "X">>

\* Three entries given latest first, formatted.
WitnessC2 ==
    /\ fmtOut # None /\ fmtOut.kind = "value"
    /\ Len(fmtIn.data) = 3
    /\ fmtIn.data[1].time > fmtIn.data[2].time
    /\ fmtIn.data[2].time > fmtIn.data[3].time

\* C3: a string is given only for a data array of at least two entries whose
\* current and next zone ids are both in the area table; a missing payload, a
\* data field that is no array or has fewer than two entries gives the
\* malformed-data failure, and an unmapped current or next zone id gives the
\* area-not-found failure that names that zone id.
TheoremC3 ==
    fmtOut # None =>
        /\ fmtOut.kind \in {"value", "throw"}
        /\ fmtOut.kind = "value" =>
              /\ IsArrayOfTwo(fmtIn)
              /\ \E i, j \in DOMAIN fmtIn.data :
                    /\ IsCurrentAndNext(fmtIn.data, i, j)
                    /\ Mapped(fmtIn.data[i].zone) /\ Mapped(fmtIn.data[j].zone)
        /\ ~IsArrayOfTwo(fmtIn) => fmtOut = Throw(<<"Invalid data format">>)
        /\ IsArrayOfTwo(fmtIn) /\ fmtOut.kind = "throw" =>
              \E i, j \in DOMAIN fmtIn.data :
                  /\ IsCurrentAndNext(fmtIn.data, i, j)
                  /\ \/ /\ ~Mapped(fmtIn.data[i].zone)
                        /\ fmtOut.text = <<"Area info not found for current zone: ",
                                           ToString(fmtIn.data[i].zone)>>
                     \/ /\ Mapped(fmtIn.data[i].zone)
                        /\ ~Mapped(fmtIn.data[j].zone)
                        /\ fmtOut.text = <<"Area info not found for next zone: ",
                                           ToString(fmtIn.data[j].zone)>>

\* A payload whose next zone id is not in the area table, refused.
WitnessC3 ==
    /\ fmtOut # None /\ fmtOut.kind = "throw"
    /\ fmtOut.text[1] = "Area info not found for next zone: "


(***************************************************************************)
(* Properties of the preprocessor.                                         *)
(***************************************************************************)
\* The three phrasings as the specification and the comment of the function
\* have them: 需要等级, 等级需求, Requires Level.
HasStatedLevelMarker(line) ==
    \/ includes(line, "U+9700U+8981U+7B49U+7EA7")
    \/ includes(line, "U+7B49U+7EA7U+9700U+6C42")
    \/ includes(line, "Requires Level")

FirstStatedMarkerLine(lines) ==
    IF \E k \in DOMAIN lines : HasStatedLevelMarker(lines[k])
    THEN CHOOSE k \in DOMAIN lines :
            /\ HasStatedLevelMarker(lines[k])
            /\ \A h \in 1..(k - 1) : ~HasStatedLevelMarker(lines[h])
    ELSE 0

\* C4: whenever the cleaned text has a line with a level-requirement marker
\* in one of the three phrasings 需要等级, 等级需求, Requires Level, with i the
\* index of the first such line, the result is the first min(3, i) lines
\* followed by every line from i onward.  Stated for the texts without the
\* phrase 需要等級, the one the function looks for in place of 需要等级.
CounterexampleC4 ==
    ocrOut # None /\ ~includes(ocrIn, "U+9700U+8981U+7B49U+7D1A") =>
        LET lines == split(processedText(ocrIn))
            k == FirstStatedMarkerLine(lines)
        IN  k # 0 =>
               ocrOut.text = join(SubSeq(lines, 1, min(3, k - 1)) \o SubSeq(lines, k, Len(lines)))

IsMarkerAt(s, i) == i + 2 <= Len(s) /\ SubSeq(s, i, i + 2) = <<"[", "ETH", "]">>

MarkerCount(s) == Cardinality({i \in DOMAIN s : IsMarkerAt(s, i)})

\* No '[' other than that of an [ETH] marker is followed by a ']'.
NoOtherAnnotation(s) ==
    \A h \in DOMAIN s :
        s[h] = "[" /\ ~IsMarkerAt(s, h) => \A j \in (h + 1)..Len(s) : s[j] # "]"

\* No [ETH] marker lies on a line that the truncation discards.
TruncationKeepsMarkers(text) ==
    LET lines == split(processedText(text))
        idx == levelRequirementLine(lines, 1)
    IN  \A k \in 4..(idx - 1) : MarkerCount(lines[k]) = 0

\* The [ETH] markers of a text that no other removal takes along.  A piece
\* goes with a square-bracketed annotation when a '[' that is not a marker's
\* stands before it, has a ']' somewhere after it and none between it and the
\* piece.  Of what is left, a piece goes with a corner-bracketed note when a
\* 『 stands before it, has a 』 somewhere after it and none between it and the
\* piece.  Of what is then left, a piece goes with a 缀 annotation when a 缀
\* directly followed by a colon stands before it on its line.
KeptMarkers(text) ==
    LET opens == {h \in DOMAIN text : text[h] = "[" /\ ~IsMarkerAt(text, h)}
        closes == {j \in DOMAIN text : text[j] = "]"}
        InSquare(k) ==
            \E h \in opens :
                /\ h <= k
                /\ \E j \in closes : j > h
                /\ \A j \in closes : ~(h < j /\ j < k)
        cornerOpens == {h \in DOMAIN text : text[h] = "U+300E" /\ ~InSquare(h)}
        cornerCloses == {j \in DOMAIN text : text[j] = "U+300F" /\ ~InSquare(j)}
        InCorner(k) ==
            \E h \in cornerOpens :
                /\ h <= k
                /\ \E j \in cornerCloses : j > h
                /\ \A j \in cornerCloses : ~(h < j /\ j < k)
        Gone(k) == InSquare(k) \/ InCorner(k)
        breaks == {j \in DOMAIN text : text[j] = "\n" /\ ~Gone(j)}
        suffixes ==
            {h \in DOMAIN text :
                /\ text[h] = "U+7F00" /\ ~Gone(h)
                /\ \E c \in (h + 1)..Len(text) :
                      /\ text[c] \in {"U+FF1A", ":"} /\ ~Gone(c)
                      /\ \A j \in (h + 1)..(c - 1) : Gone(j)}
        AfterSuffix(k) ==
            \E h \in suffixes : h < k /\ \A j \in breaks : ~(h < j /\ j < k)
    IN  {i \in DOMAIN text :
            IsMarkerAt(text, i) /\ ~InSquare(i) /\ ~InCorner(i) /\ ~AfterSuffix(i)}

\* C5 as stated: every '[ETH]' of the input is kept and every other
\* square-bracketed annotation is removed, for every input whose markers lie
\* on lines the truncation keeps.
CounterexampleC5 ==
    ocrOut # None /\ TruncationKeepsMarkers(ocrIn) =>
        /\ MarkerCount(ocrOut.text) = MarkerCount(ocrIn)
        /\ NoOtherAnnotation(ocrOut.text)

\* C5 amended: every other square-bracketed annotation is removed, and for
\* every input whose markers lie on lines the truncation keeps, the '[ETH]'
\* markers of the output are those of the input that do not go with another
\* removal: a marker is kept unless it follows a '[' that is still open or,
\* once the square-bracketed annotations are out, lies inside a 『…』 note or
\* after 缀： / 缀: on its line.
TheoremC5 ==
    ocrOut # None =>
        /\ NoOtherAnnotation(ocrOut.text)
        /\ TruncationKeepsMarkers(ocrIn) =>
              MarkerCount(ocrOut.text) = Cardinality(KeptMarkers(ocrIn))

\* An [ETH] marker kept in a text that also has a numeric tag, a 『』 note and
\* a 前缀： annotation, all three removed.
WitnessC5 ==
    /\ ocrOut # None
    /\ TruncationKeepsMarkers(ocrIn)
    /\ MarkerCount(ocrIn) = 1 /\ Cardinality(KeptMarkers(ocrIn)) = 1
    /\ MarkerCount(ocrOut.text) = 1
    /\ \E h \in DOMAIN ocrIn : ocrIn[h] = "ED"
    /\ \E h \in DOMAIN ocrIn : ocrIn[h] = "U+300E"
    /\ \E h \in DOMAIN ocrIn : ocrIn[h] = "U+7F00" /\ ocrIn[h + 1] = "U+FF1A"
    /\ \A h \in DOMAIN ocrOut.text : ocrOut.text[h] \notin {"ED", "U+300E", "U+7F00"}

(***************************************************************************)
(* Properties of the 鉴定 command.                                          *)
(***************************************************************************)
Count(log, step) == Cardinality({i \in DOMAIN log : log[i] = step})

\* Every a of the log comes before every b.
Ordered(log, a, b) == \A i, j \in DOMAIN log : log[i] = a /\ log[j] = b => i < j

\* A b in the log has an a before it.
Requires(log, a, b) ==
    \A j \in DOMAIN log : log[j] = b => \E i \in 1..(j - 1) : log[i] = a

OcrFailedPrefix == "U+88C5U+5907U+5C5EU+6027U+8BC6U+522BU+5931U+8D25: "

AiFailedPrefix == "U+88C5U+5907U+4EF7U+503CU+5206U+6790U+5931U+8D25: "

MissingScreenshot ==
    <<"U+672AU+68C0U+6D4BU+5230U+6709U+6548U+7684U+88C5U+5907U+622AU+56FEU+FF0CU+8BF7U+91CDU+65B0U+53D1U+9001U+3002">>

\* The reply by the results of the steps: the message of the first step that
\* failed, or the analysis.
ReplyByResults(c) ==
    IF ~c.ocr.success THEN <<OcrFailedPrefix>> \o c.ocr.error
    ELSE IF ~c.ai.success THEN <<AiFailedPrefix>> \o c.ai.error
    ELSE c.ai.text

\* C8: with an image reference available and test mode off, OCR, text
\* preprocessing and AI analysis run in this order, each at most once; the
\* reply is the AI analysis text when all steps succeed and otherwise the
\* message of the first step that failed, and no step runs after a failure.
TheoremC8 ==
    cmd.kind = "cmd" /\ cmd.hadSrc =>
        /\ \A step \in {"ocr", "preprocess", "ai"} : Count(cmd.log, step) <= 1
        /\ Ordered(cmd.log, "ocr", "preprocess")
        /\ Ordered(cmd.log, "preprocess", "ai")
        /\ Ordered(cmd.log, "ocr", "ai")
        /\ Requires(cmd.log, "ocr", "preprocess")
        /\ Requires(cmd.log, "ocr", "ai")
        /\ ~cmd.mockMode => Requires(cmd.log, "preprocess", "ai")
        /\ cmd.ocr.set /\ ~cmd.ocr.success =>
              /\ cmd.pc = "replied"
              /\ Count(cmd.log, "preprocess") = 0 /\ Count(cmd.log, "ai") = 0
              /\ ~cmd.ai.set
        /\ cmd.ai.set => cmd.pc = "replied" /\ cmd.ocr.set /\ cmd.ocr.success
        /\ cmd.pc = "replied" =>
              /\ cmd.ocr.set
              /\ cmd.ocr.success => cmd.ai.set
              /\ cmd.reply = ReplyByResults(cmd)
        /\ cmd.pc # "threw"

\* OCR, preprocessing and AI analysis all ran and the analysis is the reply.
WitnessC8 ==
    /\ cmd.kind = "cmd" /\ cmd.hadSrc
    /\ cmd.pc = "replied"
    /\ cmd.log = <<"ocr", "preprocess", "ai">>
    /\ cmd.reply = <<"analysis">>

\* C9: every failure of a command invocation, a failure of a platform call
\* such as sending the prompt message included, becomes the reply of the
\* command; no exception escapes the handler.
CounterexampleC9 == cmd.kind = "cmd" => cmd.pc # "threw"

\* C10: with test mode off and no image in the invoking or quoted message the
\* prompt is sent, then the follow-up wait happens, then the deletion of the
\* prompt is attempted exactly once whether or not an image arrived; a failed
\* deletion does not change the result; without an image the reply is the
\* missing-screenshot string and neither OCR nor AI analysis is called.
TheoremC10 ==
    cmd.kind = "cmd" /\ ~cmd.testMode /\ ~cmd.hadSrc /\ cmd.pc # "start" =>
        /\ cmd.log # <<>> /\ cmd.log[1] = "send"
        /\ \A step \in {"send", "prompt", "delete"} : Count(cmd.log, step) <= 1
        /\ Count(cmd.log, "prompt") = 1 => cmd.log[2] = "prompt"
        /\ Count(cmd.log, "delete") = 1 => Len(cmd.log) >= 3 /\ cmd.log[3] = "delete"
        /\ cmd.pc = "awaitSend" => cmd.log = <<"send">>
        /\ cmd.pc = "awaitPrompt" => cmd.log = <<"send", "prompt">>
        /\ cmd.pc = "awaitDelete" => cmd.log = <<"send", "prompt", "delete">>
        /\ cmd.pc = "threw" => cmd.log = <<"send">>
        /\ cmd.pc = "replied" =>
              /\ Count(cmd.log, "delete") = 1
              /\ cmd.reply = IF cmd.src = NoSrc THEN MissingScreenshot ELSE ReplyByResults(cmd)
        /\ cmd.src = NoSrc =>
              /\ Count(cmd.log, "ocr") = 0 /\ Count(cmd.log, "ai") = 0
              /\ ~cmd.ocr.set /\ ~cmd.ai.set
              /\ cmd.pc \in {"awaitSend", "awaitPrompt", "awaitDelete", "replied", "threw"}

\* No image arrived within the wait, the deletion of the prompt failed, and
\* the reply is the missing-screenshot string.
WitnessC10 ==
    /\ cmd.kind = "cmd" /\ ~cmd.testMode /\ ~cmd.hadSrc
    /\ cmd.pc = "replied"
    /\ cmd.log = <<"send", "prompt", "delete", "warn">>
    /\ cmd.reply = MissingScreenshot

TestModeHint ==
    <<"U+6D4BU+8BD5U+6A21U+5F0FU+4E0BU+FF0CU+8BF7U+76F4U+63A5U+8F93U+5165OCRU+8BC6U+522BU+540EU+7684U+6587U+672CU+5185U+5BB9U+3002">>

\* The reply by the result of the AI analysis alone.
ReplyByAnalysis(c) ==
    IF c.ai.success THEN c.ai.text ELSE <<AiFailedPrefix>> \o c.ai.error

\* C11 as stated: with test mode enabled the text goes through preprocessing
\* and AI analysis, and the reply is the analysis text or the AI failure
\* message.  Taken with mock mode off; the invocation without a text
\* argument replies with the usage hint of test mode instead.
CounterexampleC11 ==
    cmd.kind = "cmd" /\ cmd.testMode /\ ~cmd.mockMode /\ cmd.pc = "replied" =>
        /\ cmd.log = <<"preprocess", "ai">>
        /\ cmd.ai.set
        /\ cmd.reply = ReplyByAnalysis(cmd)

\* C11 amended: with test mode enabled no image is extracted, no prompt is
\* sent or waited for, no deletion is attempted and no OCR call is made; with
\* a non-empty text argument the text is the input of the analysis, which is
\* preprocessing and then the AI request on the preprocessed text (in mock
\* mode the canned analysis, without preprocessing), and the reply is the
\* analysis text or the AI failure message; with an empty argument the reply
\* is the usage hint and nothing runs.
TheoremC11 ==
    cmd.kind = "cmd" /\ cmd.testMode =>
        /\ \A step \in {"send", "prompt", "delete", "warn", "ocr"} : Count(cmd.log, step) = 0
        /\ cmd.src = NoSrc /\ ~cmd.ocr.set
        /\ cmd.pc \in {"start", "aiMockDelay", "awaitAiFetch", "awaitAiJson", "replied"}
        /\ cmd.pc # "start" /\ imageString(cmd.image) = <<>> =>
              /\ cmd.pc = "replied" /\ cmd.reply = TestModeHint
              /\ cmd.log = <<>> /\ ~cmd.ai.set /\ cmd.prompt = <<>>
        /\ cmd.pc # "start" /\ imageString(cmd.image) # <<>> =>
              /\ cmd.log = IF cmd.mockMode THEN <<"ai">> ELSE <<"preprocess", "ai">>
              /\ ~cmd.mockMode =>
                    cmd.prompt = itemAnalysisPrompt(preprocessOcrText(imageString(cmd.image)))
              /\ cmd.ai.set <=> cmd.pc = "replied"
              /\ cmd.pc = "replied" => cmd.reply = ReplyByAnalysis(cmd)
              /\ cmd.mockMode /\ cmd.pc = "replied" => cmd.reply = mockAnalysis

\* Test mode with the text '[ETH]... / 需要等级 ...' as the argument: the
\* preprocessed text was sent to the AI and the analysis is the reply.
WitnessC11 ==
    /\ cmd.kind = "cmd" /\ cmd.testMode /\ ~cmd.mockMode
    /\ cmd.image.text # <<>> /\ cmd.image.text[1] = "["
    /\ cmd.pc = "replied"
    /\ cmd.log = <<"preprocess", "ai">>
    /\ cmd.ai.success /\ cmd.reply = <<"analysis">>

====
